---- MODULE Spec2Model ----
(***************************************************************************)
(* Model of the two scripts of the repository:                             *)
(*   load_files_locally_20260130.py  (specification Spec)                  *)
(*   generate_valid_urls.py          (specifications GenSpec, GenFairSpec) *)
(* Strings (URLs, file names, file texts, response bodies) are sequences   *)
(* of one-character strings, so that the string functions of the scripts   *)
(* are computed character by character.                                    *)
(***************************************************************************)
EXTENDS FiniteSets, Integers, Sequences, TLC

VARIABLES
    pc,               \* position of main()
    ds,               \* index into DATASET_PAGES of the dataset being handled
    valid_page_urls,  \* the list valid_page_urls of main()
    valid_urls_file,  \* valid_page_urls.txt: [exists, text]
    page_num,         \* load: loop variable of the ?page=N probe
    cur,              \* load: position of "for url in valid_page_urls"
    all_pdf_urls,     \* load: the set all_pdf_urls
    queue,            \* load: sorted(all_pdf_urls), the list the download loop walks
    idx,              \* load: position in queue
    ok,               \* load: the counter ok
    resp,             \* load: the last response of context.request.get
    data,             \* load: resp.body() of the download being written
    fs,               \* load: the files under OUT_DIR, name -> bytes
    file0,            \* history: valid_page_urls.txt when main() started
    fs0,              \* history: the files under OUT_DIR when main() started
    probe_log,        \* history: the page.goto calls of Phase 1, <<dataset, page, ok>>
    requests,         \* history: the URLs passed to context.request.get
    src,              \* history: name -> the body last handed to write_bytes for it
    dl_count,         \* history: derived filename -> number of bodies written for it
    page_url,         \* generate: page.url
    seen,             \* generate: the set seen of the current walk
    sel,              \* generate: index of the selector click_next is trying
    walk_start,       \* history: Len(valid_page_urls) when the current walk began
    last_click        \* history: <<dataset, href>> of the link clicked by the last step

sharedVars == <<pc, ds, valid_page_urls, valid_urls_file>>
loadVars   == <<page_num, cur, all_pdf_urls, queue, idx, ok, resp, data, fs,
                file0, fs0, probe_log, requests, src, dl_count>>
genVars    == <<page_url, seen, sel, walk_start, last_click>>
vars       == <<sharedVars, loadVars, genVars>>

---------------------------------------------------------------------------
(* Characters and strings *)

\* the characters that occur in the model, in code point order
Alphabet ==
    <<"\n", " ", "#", "%", "+", "-", ".", "/",
      "0", "1", "2", "3", "4", "5", "6", "7", "8", "9",
      ":", "<", "=", ">", "?",
      "A", "B", "C", "D", "E", "F", "G", "H", "I", "J", "K", "L", "M",
      "N", "O", "P", "Q", "R", "S", "T", "U", "V", "W", "X", "Y", "Z", "_",
      "a", "b", "c", "d", "e", "f", "g", "h", "i", "j", "k", "l", "m",
      "n", "o", "p", "q", "r", "s", "t", "u", "v", "w", "x", "y", "z">>

Range(s) == {s[i] : i \in DOMAIN s}

Ord == [c \in Range(Alphabet) |-> CHOOSE i \in DOMAIN Alphabet : Alphabet[i] = c]

UpperChars == SubSeq(Alphabet, 24, 49)
LowerChars == SubSeq(Alphabet, 51, 76)
DigitChars == SubSeq(Alphabet, 9, 18)

\* str.lower() on one character
LowerChar(c) ==
    IF c \in Range(UpperChars)
    THEN LowerChars[CHOOSE i \in DOMAIN UpperChars : UpperChars[i] = c]
    ELSE c

Lower(s) == [i \in DOMAIN s |-> LowerChar(s[i])]

Drop(s, n) == SubSeq(s, n + 1, Len(s))

StartsWith(s, p) == Len(p) <= Len(s) /\ SubSeq(s, 1, Len(p)) = p

EndsWith(s, p) == Len(p) <= Len(s) /\ SubSeq(s, Len(s) - Len(p) + 1, Len(s)) = p

\* p in s  (also the CSS attribute test [href*='p'])
Contains(s, p) ==
    \E i \in 0..(Len(s) - Len(p)) : SubSeq(s, i + 1, i + Len(p)) = p

\* s.find of the first character that is in cs; 0 when there is none
FindChar(s, cs) ==
    LET I == {i \in DOMAIN s : s[i] \in cs}
    IN  IF I = {} THEN 0 ELSE CHOOSE i \in I : \A j \in I : i <= j

\* s.rfind(c); 0 when there is none
RFindChar(s, c) ==
    LET I == {i \in DOMAIN s : s[i] = c}
    IN  IF I = {} THEN 0 ELSE CHOOSE i \in I : \A j \in I : j <= i

\* a < b for Python strings
LexLess(a, b) ==
    LET n == IF Len(a) < Len(b) THEN Len(a) ELSE Len(b)
        D == {i \in 1..n : a[i] # b[i]}
    IN  IF D = {}
        THEN Len(a) < Len(b)
        ELSE LET i == CHOOSE k \in D : \A j \in D : k <= j
             IN  Ord[a[i]] < Ord[b[i]]

\* list.sort() / sorted(list) on strings: element i goes to the position given
\* by the number of smaller elements and of equal elements before it
SortList(l) ==
    LET Pos(i) == 1 + Cardinality({j \in DOMAIN l : LexLess(l[j], l[i])})
                    + Cardinality({j \in DOMAIN l : j < i /\ l[j] = l[i]})
    IN  [k \in DOMAIN l |-> l[CHOOSE i \in DOMAIN l : Pos(i) = k]]

\* sorted(a set of strings)
Sorted(S) ==
    [k \in 1..Cardinality(S) |->
        CHOOSE x \in S : Cardinality({y \in S : LexLess(y, x)}) = k - 1]

\* sep.join(l)
RECURSIVE Join(_, _)
Join(l, sep) ==
    IF l = <<>> THEN <<>>
    ELSE IF Len(l) = 1 THEN l[1]
    ELSE l[1] \o sep \o Join(Tail(l), sep)

\* str.splitlines(); "\n" is the only line boundary of the alphabet
RECURSIVE SplitLines(_)
SplitLines(t) ==
    IF t = <<>> THEN <<>>
    ELSE LET i == FindChar(t, {"\n"})
         IN  IF i = 0 THEN <<t>>
             ELSE <<SubSeq(t, 1, i - 1)>> \o SplitLines(Drop(t, i))

Whitespace == {" ", "\n"}

\* str.strip()
Strip(s) ==
    LET I == {i \in DOMAIN s : s[i] \notin Whitespace}
    IN  IF I = {} THEN <<>>
        ELSE SubSeq(s, CHOOSE i \in I : \A j \in I : i <= j,
                       CHOOSE i \in I : \A j \in I : j <= i)

\* str.rstrip(c)
RECURSIVE RStrip(_, _)
RStrip(s, c) ==
    IF s # <<>> /\ s[Len(s)] = c THEN RStrip(SubSeq(s, 1, Len(s) - 1), c) ELSE s

\* str(n) for n >= 0
RECURSIVE Str(_)
Str(n) ==
    IF n < 10 THEN <<DigitChars[n + 1]>>
    ELSE Str(n \div 10) \o <<DigitChars[(n % 10) + 1]>>

---------------------------------------------------------------------------
(* Constants of the scripts *)

\* "https://www.justice.gov/epstein/doj-disclosures/data-set-{9,10,11}-files"
DATASET_PAGES ==
    << <<"h","t","t","p","s",":","/","/","w","w","w",".","j","u","s","t","i","c","e",".","g","o","v","/","e","p","s","t","e","i","n","/","d","o","j","-","d","i","s","c","l","o","s","u","r","e","s","/","d","a","t","a","-","s","e","t","-","9","-","f","i","l","e","s">>,
       <<"h","t","t","p","s",":","/","/","w","w","w",".","j","u","s","t","i","c","e",".","g","o","v","/","e","p","s","t","e","i","n","/","d","o","j","-","d","i","s","c","l","o","s","u","r","e","s","/","d","a","t","a","-","s","e","t","-","1","0","-","f","i","l","e","s">>,
       <<"h","t","t","p","s",":","/","/","w","w","w",".","j","u","s","t","i","c","e",".","g","o","v","/","e","p","s","t","e","i","n","/","d","o","j","-","d","i","s","c","l","o","s","u","r","e","s","/","d","a","t","a","-","s","e","t","-","1","1","-","f","i","l","e","s">> >>

\* number of ?page=N URLs probed per dataset in the model
MaxProbe == 2

\* the probe range ?page=1..MAX_PAGE (1000 in the script, MaxProbe here)
MAX_PAGE == MaxProbe

\* b"%PDF"
PDF_SIGNATURE == <<"%","P","D","F">>

---------------------------------------------------------------------------
(* Pure functions of load_files_locally *)

IsAlpha(c) == c \in Range(UpperChars) \cup Range(LowerChars)

SchemeChars == Range(UpperChars) \cup Range(LowerChars) \cup Range(DigitChars) \cup {"+", "-", "."}

\* urlparse(u).path: drop the scheme, the netloc, the fragment and the query
UrlPath(u) ==
    LET i  == FindChar(u, {":"})
        hasScheme == i > 1 /\ IsAlpha(u[1]) /\ \A k \in 1..(i - 1) : u[k] \in SchemeChars
        r1 == IF hasScheme THEN Drop(u, i) ELSE u
        r2 == IF StartsWith(r1, <<"/","/">>)
              THEN LET rest == Drop(r1, 2)
                       j == FindChar(rest, {"/", "?", "#"})
                   IN  IF j = 0 THEN <<>> ELSE Drop(rest, j - 1)
              ELSE r1
        f  == FindChar(r2, {"#"})
        r3 == IF f = 0 THEN r2 ELSE SubSeq(r2, 1, f - 1)
        q  == FindChar(r3, {"?"})
    IN  IF q = 0 THEN r3 ELSE SubSeq(r3, 1, q - 1)

\* os.path.basename(p)
Basename(p) == Drop(p, RFindChar(p, "/"))

url_filename(u) ==
    LET name == Basename(UrlPath(u))
    IN  IF name # <<>> THEN name ELSE <<"d","o","w","n","l","o","a","d",".","p","d","f">>

normalize_pdf_url(u) ==
    IF EndsWith(Lower(u), <<".","p","p","d","f">>)
    THEN SubSeq(u, 1, Len(u) - 5) \o <<".","p","d","f">>
    ELSE u

\* a signature test that compares one byte too few
looks_like_pdf_bytes_short(b) ==
    SubSeq(b, 1, IF Len(b) < 3 THEN Len(b) ELSE 3) = SubSeq(PDF_SIGNATURE, 1, 3)

looks_like_pdf_bytes(b) ==
    SubSeq(b, 1, IF Len(b) < 4 THEN Len(b) ELSE 4) = PDF_SIGNATURE

\* PurePath.suffix of a file name
PathSuffix(name) ==
    LET i == RFindChar(name, ".")
    IN  IF 1 < i /\ i < Len(name) THEN Drop(name, i - 1) ELSE <<>>

\* PurePath.with_suffix(suffix) on a file name
WithSuffix(name, suffix) ==
    LET old == PathSuffix(name)
    IN  SubSeq(name, 1, Len(name) - Len(old)) \o suffix

\* out_path.with_suffix(out_path.suffix + ".part")
TmpName(name) == WithSuffix(name, PathSuffix(name) \o <<".","p","a","r","t">>)

\* new URL(href, base).toString() for an absolute or a root-relative href
AbsoluteUrl(base, href) ==
    IF StartsWith(href, <<"/">>)
    THEN LET k == FindChar(base, {":"}) + 2
             rest == Drop(base, k)
             j == FindChar(rest, {"/", "?", "#"})
             origin == IF j = 0 THEN base ELSE SubSeq(base, 1, k + j - 1)
         IN  origin \o href
    ELSE href

\* the selector a[href$='.pdf'], a[href$='.PDF'], a[href$='.ppdf'], a[href$='.PPDF']
IsPdfAnchor(href) ==
    \/ EndsWith(href, <<".","p","d","f">>)
    \/ EndsWith(href, <<".","P","D","F">>)
    \/ EndsWith(href, <<".","p","p","d","f">>)
    \/ EndsWith(href, <<".","P","P","D","F">>)

\* collect_pdfs_from_current_page for a page at url whose anchors have these hrefs
collect_pdfs_from_current_page(url, hrefs) ==
    {normalize_pdf_url(AbsoluteUrl(url, h)) : h \in {g \in hrefs : IsPdfAnchor(g) /\ g # <<>>}}

\* the lines of valid_page_urls.txt as main() reads them
ReadValidUrls(text) ==
    LET stripped == [i \in DOMAIN SplitLines(text) |-> Strip(SplitLines(text)[i])]
        NonEmpty(l) == l # <<>>
    IN  SelectSeq(stripped, NonEmpty)

---------------------------------------------------------------------------
(* The environment of load_files_locally: what the site and the disk can hold *)

\* hrefs a listing page can carry:
\*   /a/x.pdf.part?d=.pdf   https://www.justice.gov/b/x.pdf   /b/x.PPDF
\*   /c/x.pdf.part?d=.pdf   /b/x.html
HrefUniverse ==
    { <<"/","a","/","x",".","p","d","f",".","p","a","r","t","?","d","=",".","p","d","f">>,
      <<"h","t","t","p","s",":","/","/","w","w","w",".","j","u","s","t","i","c","e",".","g","o","v","/","b","/","x",".","p","d","f">>,
      <<"/","b","/","x",".","P","P","D","F">>,
      <<"/","c","/","x",".","p","d","f",".","p","a","r","t","?","d","=",".","p","d","f">>,
      <<"/","b","/","x",".","h","t","m","l">> }

\* bodies a download can return: "<html", "%PD", "%PDF1", "%PDF2"
BodyUniverse ==
    { <<"<","h","t","m","l">>, <<"%","P","D">>, <<"%","P","D","F","1">>, <<"%","P","D","F","2">> }

\* valid_page_urls.txt before the run: absent, or one of these texts: empty,
\* one blank line, or the two lines "<data-set-9 URL>?page=1" and
\* " <data-set-9 URL> "
FileTexts ==
    { <<>>,
      <<" ","\n">>,
      <<"h","t","t","p","s",":","/","/","w","w","w",".","j","u","s","t","i","c","e",".","g","o","v","/","e","p","s","t","e","i","n","/","d","o","j","-","d","i","s","c","l","o","s","u","r","e","s","/","d","a","t","a","-","s","e","t","-","9","-","f","i","l","e","s","?","p","a","g","e","=","1","\n"," ","h","t","t","p","s",":","/","/","w","w","w",".","j","u","s","t","i","c","e",".","g","o","v","/","e","p","s","t","e","i","n","/","d","o","j","-","d","i","s","c","l","o","s","u","r","e","s","/","d","a","t","a","-","s","e","t","-","9","-","f","i","l","e","s"," ","\n">> }

NoFile == [exists |-> FALSE, text |-> <<>>]

EmptyDir == [p \in {} |-> <<>>]

\* OUT_DIR before the run: empty, x.pdf holding "old", or x.pdf of size 0
InitialDirs ==
    { EmptyDir,
      [p \in {<<"x",".","p","d","f">>} |-> <<"o","l","d">>],
      [p \in {<<"x",".","p","d","f">>} |-> <<>>] }

FsPut(f, p, c) == [q \in DOMAIN f \cup {p} |-> IF q = p THEN c ELSE f[q]]

FsDel(f, p) == [q \in DOMAIN f \ {p} |-> f[q]]

\* out_path.exists() and out_path.stat().st_size > 0
ExistsNonEmpty(f, p) == p \in DOMAIN f /\ Len(f[p]) > 0

NoResp == [ok |-> FALSE, body |-> <<>>]

NoClick == <<0, <<>>>>

\* outcomes of page.goto: a response that is ok, a PlaywrightTimeoutError, a
\* response that is missing or not ok, any other exception (not caught)
GotoOutcomes == {"ok", "timeout", "not_ok", "error"}

\* responses of context.request.get
Responses ==
    {[ok |-> FALSE, body |-> <<"<","h","t","m","l">>]} \cup {[ok |-> TRUE, body |-> b] : b \in BodyUniverse}

---------------------------------------------------------------------------
(* load_files_locally: main() *)

GenIdle ==
    /\ page_url = <<>>
    /\ seen = {}
    /\ sel = 1
    /\ walk_start = 0
    /\ last_click = NoClick

Init ==
    /\ pc = "start"
    /\ ds = 1
    /\ valid_page_urls = <<>>
    /\ valid_urls_file \in {NoFile} \cup {[exists |-> TRUE, text |-> t] : t \in FileTexts}
    /\ page_num = 1
    /\ cur = 1
    /\ all_pdf_urls = {}
    /\ queue = <<>>
    /\ idx = 1
    /\ ok = 0
    /\ resp = NoResp
    /\ data = <<>>
    /\ fs \in InitialDirs
    /\ file0 = valid_urls_file
    /\ fs0 = fs
    /\ probe_log = {}
    /\ requests = {}
    /\ src = EmptyDir
    /\ dl_count = EmptyDir
    /\ GenIdle

downloadVars == <<queue, idx, ok, resp, data, fs, requests, src, dl_count>>

\* lines 58-70: read valid_page_urls.txt when it exists; Phase 1 when the list is empty
LoadStart ==
    /\ pc = "start"
    /\ valid_page_urls' = IF valid_urls_file.exists
                          THEN ReadValidUrls(valid_urls_file.text)
                          ELSE <<>>
    /\ IF valid_page_urls' = <<>>
       THEN pc' = "p1_base" /\ ds' = 1 /\ cur' = cur
       ELSE pc' = "p2_visit" /\ cur' = 1 /\ ds' = ds
    /\ UNCHANGED <<valid_urls_file, page_num, all_pdf_urls, file0, fs0, probe_log>>
    /\ UNCHANGED downloadVars
    /\ UNCHANGED genVars

\* "continue" / "break" / end of the range loop of Phase 1: on to the next dataset
Phase1NextDataset ==
    IF ds < Len(DATASET_PAGES)
    THEN pc' = "p1_base" /\ ds' = ds + 1
    ELSE pc' = "p1_save" /\ ds' = ds

\* lines 72-83: load the base URL of the dataset
Phase1Base ==
    /\ pc = "p1_base"
    /\ \E o \in GotoOutcomes :
          /\ probe_log' = probe_log \cup {<<ds, 0, o = "ok">>}
          /\ IF o = "error"
             THEN pc' = "crashed" /\ UNCHANGED <<ds, page_num>>
             ELSE IF o = "ok"
             THEN pc' = "p1_page" /\ page_num' = 1 /\ ds' = ds
             ELSE Phase1NextDataset /\ page_num' = page_num
    /\ UNCHANGED <<valid_page_urls, valid_urls_file, cur, all_pdf_urls, file0, fs0>>
    /\ UNCHANGED downloadVars
    /\ UNCHANGED genVars

\* lines 85-98: probe base_url?page=page_num
Phase1Page ==
    /\ pc = "p1_page"
    /\ LET url == DATASET_PAGES[ds] \o <<"?","p","a","g","e","=">> \o Str(page_num)
       IN  \E o \in GotoOutcomes :
             /\ probe_log' = probe_log \cup {<<ds, page_num, o = "ok">>}
             /\ IF o = "error"
                THEN pc' = "crashed" /\ UNCHANGED <<ds, page_num, valid_page_urls>>
                ELSE IF o = "ok"
                THEN /\ valid_page_urls' = Append(valid_page_urls, url)
                     /\ IF page_num < MAX_PAGE
                        THEN pc' = "p1_page" /\ page_num' = page_num + 1 /\ ds' = ds
                        ELSE Phase1NextDataset /\ page_num' = page_num
                ELSE /\ Phase1NextDataset
                     /\ UNCHANGED <<page_num, valid_page_urls>>
    /\ UNCHANGED <<valid_urls_file, cur, all_pdf_urls, file0, fs0>>
    /\ UNCHANGED downloadVars
    /\ UNCHANGED genVars

\* lines 100-108: sort, write valid_page_urls.txt, return when nothing was found
Phase1Save ==
    /\ pc = "p1_save"
    /\ valid_page_urls' = SortList(valid_page_urls)
    /\ valid_urls_file' = [exists |-> TRUE, text |-> Join(valid_page_urls', <<"\n">>)]
    /\ IF valid_page_urls' = <<>>
       THEN pc' = "done" /\ cur' = cur
       ELSE pc' = "p2_visit" /\ cur' = 1
    /\ UNCHANGED <<ds, page_num, all_pdf_urls, file0, fs0, probe_log>>
    /\ UNCHANGED downloadVars
    /\ UNCHANGED genVars

\* lines 112-120: load one valid page URL and collect its PDF links
Phase2Visit ==
    /\ pc = "p2_visit"
    /\ cur <= Len(valid_page_urls)
    /\ \E o \in GotoOutcomes :
          IF o = "error"
          THEN pc' = "crashed" /\ UNCHANGED <<cur, all_pdf_urls>>
          ELSE /\ pc' = pc
               /\ cur' = cur + 1
               /\ IF o = "ok"
                  THEN \E hrefs \in SUBSET HrefUniverse :
                          all_pdf_urls' = all_pdf_urls \cup
                              collect_pdfs_from_current_page(valid_page_urls[cur], hrefs)
                  ELSE all_pdf_urls' = all_pdf_urls
    /\ UNCHANGED <<ds, valid_page_urls, valid_urls_file, page_num, file0, fs0, probe_log>>
    /\ UNCHANGED downloadVars
    /\ UNCHANGED genVars

\* lines 122-130: return when no PDF was found, else start the download loop
Phase2Finish ==
    /\ pc = "p2_visit"
    /\ cur > Len(valid_page_urls)
    /\ IF all_pdf_urls = {}
       THEN pc' = "done" /\ UNCHANGED <<queue, idx, ok>>
       ELSE pc' = "dl_check" /\ queue' = Sorted(all_pdf_urls) /\ idx' = 1 /\ ok' = 0
    /\ UNCHANGED <<ds, valid_page_urls, valid_urls_file, page_num, cur, all_pdf_urls,
                   file0, fs0, probe_log, resp, data, fs, requests, src, dl_count>>
    /\ UNCHANGED genVars

phaseVars == <<ds, valid_page_urls, valid_urls_file, page_num, cur, all_pdf_urls,
               file0, fs0, probe_log>>

\* "continue" / end of the body of "for u in sorted(all_pdf_urls)"
DownloadNextUrl ==
    /\ idx' = idx + 1
    /\ pc' = IF idx + 1 > Len(queue) THEN "dl_done" ELSE "dl_check"

\* lines 131-137: skip a URL whose file exists with size > 0
DownloadCheck ==
    /\ pc = "dl_check"
    /\ IF ExistsNonEmpty(fs, url_filename(queue[idx]))
       THEN ok' = ok + 1 /\ DownloadNextUrl
       ELSE pc' = "dl_get" /\ UNCHANGED <<ok, idx>>
    /\ UNCHANGED <<queue, resp, data, fs, requests, src, dl_count>>
    /\ UNCHANGED phaseVars
    /\ UNCHANGED genVars

\* lines 139-149: request the URL, drop a response that is not ok or not a PDF
DownloadGet ==
    /\ pc = "dl_get"
    /\ requests' = requests \cup {queue[idx]}
    /\ \/ /\ pc' = "crashed"            \* the request raises (timeout, network)
          /\ UNCHANGED <<resp, data, idx>>
       \/ \E r \in Responses :
             /\ resp' = r
             /\ IF ~r.ok
                THEN DownloadNextUrl /\ data' = data
                ELSE /\ data' = r.body
                     /\ IF ~looks_like_pdf_bytes(r.body)
                        THEN DownloadNextUrl
                        ELSE pc' = "dl_open" /\ idx' = idx
    /\ UNCHANGED <<queue, ok, fs, src, dl_count>>
    /\ UNCHANGED phaseVars
    /\ UNCHANGED genVars

\* lines 151-152: tmp.write_bytes(data) opens (creates or truncates) the .part file
DownloadOpen ==
    /\ pc = "dl_open"
    /\ LET fname == url_filename(queue[idx])
           tmp == TmpName(fname)
       IN  /\ fs' = FsPut(fs, tmp, <<>>)
           /\ src' = FsPut(src, tmp, data)
           /\ dl_count' = FsPut(dl_count, fname,
                                IF fname \in DOMAIN dl_count THEN dl_count[fname] + 1 ELSE 1)
    /\ pc' = IF data = <<>> THEN "dl_rename" ELSE "dl_write"
    /\ UNCHANGED <<queue, idx, ok, resp, data, requests>>
    /\ UNCHANGED phaseVars
    /\ UNCHANGED genVars

\* line 152: tmp.write_bytes(data) writes the bytes; the write can be cut off
DownloadWrite ==
    /\ pc = "dl_write"
    /\ LET tmp == TmpName(url_filename(queue[idx]))
       IN  \/ \E n \in 1..(Len(data) - Len(fs[tmp])) :
                 /\ fs' = FsPut(fs, tmp, SubSeq(data, 1, Len(fs[tmp]) + n))
                 /\ pc' = IF Len(fs[tmp]) + n = Len(data) THEN "dl_rename" ELSE "dl_write"
           \/ /\ pc' = "crashed"        \* OSError
              /\ fs' = fs
    /\ UNCHANGED <<queue, idx, ok, resp, data, requests, src, dl_count>>
    /\ UNCHANGED phaseVars
    /\ UNCHANGED genVars

\* lines 153-156: tmp.replace(out_path), count the download
DownloadRename ==
    /\ pc = "dl_rename"
    /\ LET fname == url_filename(queue[idx])
           tmp == TmpName(fname)
       IN  /\ fs' = FsPut(FsDel(fs, tmp), fname, fs[tmp])
           /\ src' = FsPut(FsDel(src, tmp), fname, src[tmp])
    /\ ok' = ok + 1
    /\ DownloadNextUrl
    /\ UNCHANGED <<queue, resp, data, requests, dl_count>>
    /\ UNCHANGED phaseVars
    /\ UNCHANGED genVars

\* lines 158-160: the summary after the loop
DownloadDone ==
    /\ pc = "dl_done"
    /\ pc' = "done"
    /\ UNCHANGED <<queue, idx, ok, resp, data, fs, requests, src, dl_count>>
    /\ UNCHANGED phaseVars
    /\ UNCHANGED genVars

Next ==
    \/ LoadStart
    \/ Phase1Base
    \/ Phase1Page
    \/ Phase1Save
    \/ Phase2Visit
    \/ Phase2Finish
    \/ DownloadCheck
    \/ DownloadGet
    \/ DownloadOpen
    \/ DownloadWrite
    \/ DownloadRename
    \/ DownloadDone

Spec == Init /\ [][Next]_vars

---------------------------------------------------------------------------
(* generate_valid_urls: the site as the walk can see it *)

\* URLs the browser can end up on: each base URL, each base URL with ?page=1,
\* and the base URL of a dataset that is not in DATASET_PAGES (data-set-12)
WalkUrls ==
    {DATASET_PAGES[d] : d \in DOMAIN DATASET_PAGES}
    \cup {DATASET_PAGES[d] \o <<"?","p","a","g","e","=","1">> : d \in DOMAIN DATASET_PAGES}
    \cup {<<"h","t","t","p","s",":","/","/","w","w","w",".","j","u","s","t","i","c","e",".","g","o","v","/","e","p","s","t","e","i","n","/","d","o","j","-","d","i","s","c","l","o","s","u","r","e","s","/","d","a","t","a","-","s","e","t","-","1","2","-","f","i","l","e","s">>}

\* anchors a page can carry: the href (empty when the attribute is missing) and
\* what the selectors of click_next look at: inside li.pager__item--next,
\* rel='next', inside .pager, text contains Next.  The hrefs are
\*   ?page=1   /epstein/doj-disclosures/data-set-12-files
\*   /epstein/doj-disclosures/data-set-10-files?page=1
\*   /epstein/doj-disclosures/data-set-9-files?page=1   (none)
Anchors ==
    { [href |-> <<"?","p","a","g","e","=","1">>,
       li_next |-> TRUE, rel_next |-> FALSE, pager |-> TRUE, text_next |-> TRUE],
      [href |-> <<"/","e","p","s","t","e","i","n","/","d","o","j","-","d","i","s","c","l","o","s","u","r","e","s","/","d","a","t","a","-","s","e","t","-","1","2","-","f","i","l","e","s">>,
       li_next |-> TRUE, rel_next |-> TRUE, pager |-> FALSE, text_next |-> TRUE],
      [href |-> <<"/","e","p","s","t","e","i","n","/","d","o","j","-","d","i","s","c","l","o","s","u","r","e","s","/","d","a","t","a","-","s","e","t","-","1","0","-","f","i","l","e","s","?","p","a","g","e","=","1">>,
       li_next |-> FALSE, rel_next |-> TRUE, pager |-> FALSE, text_next |-> FALSE],
      [href |-> <<"/","e","p","s","t","e","i","n","/","d","o","j","-","d","i","s","c","l","o","s","u","r","e","s","/","d","a","t","a","-","s","e","t","-","9","-","f","i","l","e","s","?","p","a","g","e","=","1">>,
       li_next |-> FALSE, rel_next |-> FALSE, pager |-> FALSE, text_next |-> TRUE],
      [href |-> <<>>,
       li_next |-> FALSE, rel_next |-> FALSE, pager |-> TRUE, text_next |-> TRUE] }

\* longest list of anchors of a page
MaxDomLen == 2

\* the anchors of a page in document order
DomUniverse == UNION {[1..n -> Anchors] : n \in 0..MaxDomLen}

\* base_url.rstrip("/").split("/")[-1]
base_path(base_url) == Basename(RStrip(base_url, "/"))

NumSelectors == 8

\* the list selectors of click_next: does anchor a match selector number s
SelectorMatches(s, a, bp) ==
    CASE s = 1 -> a.li_next /\ Contains(a.href, bp)
      [] s = 2 -> a.li_next /\ Contains(a.href, <<"?","p","a","g","e","=">>)
      [] s = 3 -> a.li_next
      [] s = 4 -> a.rel_next /\ Contains(a.href, bp)
      [] s = 5 -> a.rel_next /\ Contains(a.href, <<"?","p","a","g","e","=">>)
      [] s = 6 -> a.pager /\ a.text_next
      [] s = 7 -> a.text_next /\ Contains(a.href, <<"?","p","a","g","e","=">>)
      [] s = 8 -> a.text_next /\ Contains(a.href, bp)

\* line 76: a link to a different dataset
OtherDataset(href, bp) == Contains(href, <<"d","a","t","a","-","s","e","t","-">>) /\ ~Contains(href, bp)

---------------------------------------------------------------------------
(* generate_valid_urls: main() and click_next() *)

LoadIdle ==
    /\ page_num = 1
    /\ cur = 1
    /\ all_pdf_urls = {}
    /\ queue = <<>>
    /\ idx = 1
    /\ ok = 0
    /\ resp = NoResp
    /\ data = <<>>
    /\ fs = EmptyDir
    /\ file0 = valid_urls_file
    /\ fs0 = fs
    /\ probe_log = {}
    /\ requests = {}
    /\ src = EmptyDir
    /\ dl_count = EmptyDir

GenInit ==
    /\ pc = "g_base"
    /\ ds = 1
    /\ valid_page_urls = <<>>
    /\ valid_urls_file = NoFile
    /\ page_url = <<>>
    /\ seen = {}
    /\ sel = 1
    /\ walk_start = 0
    /\ last_click = NoClick
    /\ LoadIdle

\* "continue" / "break": on to the next dataset, or out of the for loop
GenNextDataset ==
    IF ds < Len(DATASET_PAGES)
    THEN pc' = "g_base" /\ ds' = ds + 1
    ELSE pc' = "g_save" /\ ds' = ds

\* lines 103-120: load the base URL, pass the age gate, start the walk
GenBase ==
    /\ pc = "g_base"
    /\ \E o \in GotoOutcomes :
          IF o = "error"
          THEN pc' = "crashed" /\ UNCHANGED <<ds, page_url, seen, walk_start>>
          ELSE IF o = "ok"
          THEN /\ pc' = "g_walk"
               /\ ds' = ds
               /\ page_url' \in WalkUrls      \* where the redirects and the age gate lead
               /\ seen' = {}
               /\ walk_start' = Len(valid_page_urls)
          ELSE GenNextDataset /\ UNCHANGED <<page_url, seen, walk_start>>
    /\ last_click' = NoClick
    /\ UNCHANGED <<valid_page_urls, valid_urls_file, sel>>
    /\ UNCHANGED loadVars

\* the while loop without "if url in seen: break"
GenWalk_no_seen ==
    /\ pc = "g_walk"
    /\ LET url == page_url
       IN  IF ~Contains(url, RStrip(DATASET_PAGES[ds], "/"))
           THEN GenNextDataset /\ UNCHANGED <<seen, valid_page_urls, sel>>
           ELSE /\ seen' = seen \cup {url}
                /\ valid_page_urls' = Append(valid_page_urls, url)
                /\ sel' = 1
                /\ pc' = "g_click"
                /\ ds' = ds
    /\ last_click' = NoClick
    /\ UNCHANGED <<valid_urls_file, page_url, walk_start>>
    /\ UNCHANGED loadVars

\* lines 121-131: one pass of the while loop up to the call of click_next
GenWalk ==
    /\ pc = "g_walk"
    /\ LET url == page_url
       IN  IF ~Contains(url, RStrip(DATASET_PAGES[ds], "/"))
           THEN GenNextDataset /\ UNCHANGED <<seen, valid_page_urls, sel>>
           ELSE IF url \in seen
           THEN GenNextDataset /\ UNCHANGED <<seen, valid_page_urls, sel>>
           ELSE /\ seen' = seen \cup {url}
                /\ valid_page_urls' = Append(valid_page_urls, url)
                /\ sel' = 1
                /\ pc' = "g_click"
                /\ ds' = ds
    /\ last_click' = NoClick
    /\ UNCHANGED <<valid_urls_file, page_url, walk_start>>
    /\ UNCHANGED loadVars

\* "continue" in the selector loop of click_next
NextSelector ==
    /\ sel' = sel + 1
    /\ pc' = pc
    /\ ds' = ds

\* click_next without the test of line 76: a link to another dataset is clicked
SelectorResult_no_reject(s, dom, bp) ==
    LET M == {i \in DOMAIN dom : SelectorMatches(s, dom[i], bp)}
    IN  IF M = {}
        THEN [kind |-> "none", href |-> <<>>]
        ELSE [kind |-> "click", href |-> dom[CHOOSE i \in M : \A j \in M : i <= j].href]

\* lines 72-77: what selector number s finds on a page with the anchors dom:
\* nothing, a link to another dataset (skipped), or the link to click
SelectorResult(s, dom, bp) ==
    LET M == {i \in DOMAIN dom : SelectorMatches(s, dom[i], bp)}
    IN  IF M = {}
        THEN [kind |-> "none", href |-> <<>>]
        ELSE LET loc == dom[CHOOSE i \in M : \A j \in M : i <= j]
             IN  IF OtherDataset(loc.href, bp)
                 THEN [kind |-> "skip", href |-> loc.href]
                 ELSE [kind |-> "click", href |-> loc.href]

\* the results selector s can have during the walk of dataset d, over all pages
SelectorResults ==
    [d \in DOMAIN DATASET_PAGES |->
        [s \in 1..NumSelectors |->
            {SelectorResult(s, dom, base_path(DATASET_PAGES[d])) : dom \in DomUniverse}]]

\* lines 71-86: click_next tries one selector on the page as it is now
click_next ==
    /\ pc = "g_click"
    /\ sel <= NumSelectors
    /\ \E r \in SelectorResults[ds][sel] :
          IF r.kind # "click"
          THEN NextSelector /\ UNCHANGED <<page_url, last_click>>
          ELSE /\ last_click' = <<ds, r.href>>
               /\ page_url' \in WalkUrls
               /\ \/ /\ pc' = "g_walk"   \* navigated, or timed out: return True
                     /\ UNCHANGED <<sel, ds>>
                  \/ NextSelector        \* any other exception: continue
    /\ UNCHANGED <<valid_page_urls, valid_urls_file, seen, walk_start>>
    /\ UNCHANGED loadVars

\* lines 87, 132-133: no selector led to a click: return False, leave the walk
click_next_false ==
    /\ pc = "g_click"
    /\ sel > NumSelectors
    /\ GenNextDataset
    /\ last_click' = NoClick
    /\ UNCHANGED <<valid_page_urls, valid_urls_file, page_url, seen, sel, walk_start>>
    /\ UNCHANGED loadVars

\* lines 135-143: sort the distinct URLs and write valid_page_urls.txt
GenSave ==
    /\ pc = "g_save"
    /\ valid_page_urls' = Sorted(Range(valid_page_urls))
    /\ valid_urls_file' = [exists |-> TRUE, text |-> Join(valid_page_urls', <<"\n">>)]
    /\ pc' = "done"
    /\ last_click' = NoClick
    /\ UNCHANGED <<ds, page_url, seen, sel, walk_start>>
    /\ UNCHANGED loadVars

GenNext ==
    \/ GenBase
    \/ GenWalk
    \/ click_next
    \/ click_next_false
    \/ GenSave

GenSpec == GenInit /\ [][GenNext]_vars

\* main() is one sequential process: a step that can be taken is taken
GenFairSpec == GenSpec /\ WF_vars(GenNext)

---------------------------------------------------------------------------
(* Properties *)

IsPrefix(a, b) == Len(a) <= Len(b) /\ SubSeq(b, 1, Len(a)) = a

\* the first four bytes are "%PDF"
HasPdfSignature(b) ==
    Len(b) >= 4 /\ b[1] = "%" /\ b[2] = "P" /\ b[3] = "D" /\ b[4] = "F"

\* the file the run has put or changed under OUT_DIR
ChangedByRun(p) == p \in DOMAIN fs /\ (p \notin DOMAIN fs0 \/ fs[p] # fs0[p])

\* the .part file whose write_bytes has begun and not finished
BeingWritten(p) ==
    /\ pc \in {"dl_write", "crashed"}
    /\ idx \in DOMAIN queue
    /\ p = url_filename(queue[idx]) \o <<".","p","a","r","t">>

C1_Written ==
    /\ \A p \in DOMAIN fs : ChangedByRun(p) => p \in DOMAIN src
    /\ \A p \in DOMAIN src :
          /\ p \in DOMAIN fs
          /\ HasPdfSignature(src[p])
          /\ IsPrefix(fs[p], src[p])
          /\ ~BeingWritten(p) => fs[p] = src[p]
    /\ pc \in {"dl_open", "dl_write", "dl_rename"} => resp.ok /\ HasPdfSignature(data)

C1_Rejected ==
    (pc = "dl_get" /\ pc' # "crashed" /\ (~resp'.ok \/ ~HasPdfSignature(resp'.body)))
        => (fs' = fs /\ src' = src /\ ok' = ok /\ pc' \in {"dl_check", "dl_done"})

\* C1: every file the download loop writes under OUT_DIR holds (a prefix of, and
\* once the write is finished all of) a response body that begins with "%PDF";
\* a response that is not ok or does not begin with "%PDF" leaves OUT_DIR and
\* the counter ok as they were.
C1_SignatureValidated == [](C1_Written) /\ [][C1_Rejected]_vars

\* C1 witness: the run is over, a downloaded file is in place, and a requested
\* URL was rejected (nothing exists under its file name).
C1_Witness ==
    /\ pc = "done"
    /\ ok >= 1
    /\ \E p \in DOMAIN src : ChangedByRun(p) /\ fs[p] = src[p]
    /\ \E u \in requests : url_filename(u) \notin DOMAIN fs

C2_Skip ==
    (pc = "dl_check" /\ ExistsNonEmpty(fs, url_filename(queue[idx])))
        => (requests' = requests /\ fs' = fs /\ pc' # "dl_get")

\* C2: a URL whose file name exists with size > 0 is skipped without a request
\* and without touching the file, and so at most one body is written for any
\* file name within one run.
C2_DedupByFilename ==
    [](\A f \in DOMAIN dl_count : dl_count[f] <= 1) /\ [][C2_Skip]_vars

FinalNames == {url_filename(u) : u \in all_pdf_urls}

C3_FinalComplete ==
    \A f \in FinalNames :
        f \in DOMAIN fs =>
            \/ f \in DOMAIN fs0 /\ fs[f] = fs0[f]
            \/ f \in DOMAIN src /\ fs[f] = src[f]

C3_OnlyByRename ==
    \A f \in FinalNames :
        (f \in DOMAIN fs' /\ (f \notin DOMAIN fs \/ fs'[f] # fs[f]))
            => /\ pc = "dl_rename"
               /\ (f \o <<".","p","a","r","t">>) \in DOMAIN fs
               /\ fs[f \o <<".","p","a","r","t">>] = data
               /\ fs'[f] = data

\* C3: in every state of the download loop a final path OUT_DIR/<filename>
\* holds either what it held before the run or a complete response body, and
\* a final path only changes by the rename of a fully written .part file.
C3_AtomicWrites == [](C3_FinalComplete) /\ [][C3_OnlyByRename]_vars

GenTerminated == pc \in {"done", "crashed"}

C4_WalkEnds ==
    /\ (pc = "g_walk" /\ (page_url \in seen \/ ~Contains(page_url, DATASET_PAGES[ds])))
          => (pc' \in {"g_base", "g_save"} /\ valid_page_urls' = valid_page_urls)
    /\ (pc = "g_click" /\ sel > NumSelectors)
          => (pc' \in {"g_base", "g_save"} /\ valid_page_urls' = valid_page_urls)

\* C4: the walk of a dataset ends when click_next finds no Next link, when the
\* current URL was already seen in this walk or when it no longer contains the
\* base URL, and main() of generate_valid_urls terminates.
C4_WalkTerminates == <>GenTerminated /\ [][C4_WalkEnds]_vars

\* C4 witness: main() has finished after a walk that recorded two pages and
\* ended on a URL it had already seen, click_next having returned True.
C4_Witness ==
    /\ pc = "done"
    /\ page_url \in seen
    /\ sel <= NumSelectors
    /\ Cardinality(seen) >= 2

\* C5: when valid_page_urls.txt exists at the start, Phase 1 is not performed
\* (no probe of a base URL or a ?page=N URL) and the file is not rewritten.
C5_ExistingFileSkipsDiscovery ==
    file0.exists =>
        /\ pc \notin {"p1_base", "p1_page", "p1_save"}
        /\ probe_log = {}
        /\ valid_urls_file = file0

WalkSegment == {i \in DOMAIN valid_page_urls : i > walk_start}

\* C6: every URL recorded during the walk of a dataset contains the base URL of
\* that dataset, no URL is recorded twice in one walk, and click_next never
\* clicks a link whose href contains "data-set-" but not the path segment of
\* the dataset.
C6_StaysOnDataset ==
    /\ pc \in {"g_walk", "g_click"} =>
          /\ \A i \in WalkSegment : Contains(valid_page_urls[i], DATASET_PAGES[ds])
          /\ \A i, j \in WalkSegment : valid_page_urls[i] = valid_page_urls[j] => i = j
    /\ last_click # NoClick =>
          ~(/\ Contains(last_click[2], <<"d","a","t","a","-","s","e","t","-">>)
            /\ ~Contains(last_click[2], Basename(DATASET_PAGES[last_click[1]])))

\* C6 witness: two pages of the walk are recorded and the last step clicked a
\* Next link that names the dataset being walked.
C6_Witness ==
    /\ pc = "g_walk"
    /\ last_click # NoClick
    /\ Contains(last_click[2], <<"d","a","t","a","-","s","e","t","-">>)
    /\ Cardinality(WalkSegment) >= 2

Phase1Over == pc \in {"p2_visit", "dl_check", "dl_get", "dl_open", "dl_write",
                      "dl_rename", "dl_done", "done"} /\ ~file0.exists

OkPages(d) == {n \in 1..MAX_PAGE : <<d, n, TRUE>> \in probe_log}

RecordedFor(d) == {u \in Range(valid_page_urls) : StartsWith(u, DATASET_PAGES[d])}

\* C7: after Phase 1 the URLs recorded for a dataset are exactly ?page=1..k for
\* the k consecutive pages that loaded, nothing is probed after a failure, and
\* the recorded listing pages of a dataset whose base URL is valid include the
\* listing served at the base URL itself.
C7_DiscoveryCoversListings ==
    Phase1Over =>
        \A d \in DOMAIN DATASET_PAGES :
            LET k == Cardinality(OkPages(d))
            IN  /\ k <= MAX_PAGE
                /\ OkPages(d) = 1..k
                /\ \A n \in 0..MAX_PAGE : <<d, n, FALSE>> \in probe_log =>
                      \A m \in (n + 1)..MAX_PAGE, b \in BOOLEAN : <<d, m, b>> \notin probe_log
                /\ RecordedFor(d) \ {DATASET_PAGES[d]} =
                      {DATASET_PAGES[d] \o <<"?","p","a","g","e","=">> \o Str(n) : n \in 1..k}
                /\ <<d, 0, TRUE>> \in probe_log => DATASET_PAGES[d] \in RecordedFor(d)

====
